---- MODULE Spec2Model ----
(***************************************************************************)
(* Model of the bounded-concurrency batch build of the MCP DevOps build    *)
(* server: tools/k8s_builder.py (K8sBuilder) and the two tools of          *)
(* server.py (build_deployables, build_helm_deployables).                  *)
(*                                                                         *)
(* Python values are encoded as follows.  A str is a sequence of tokens    *)
(* (an f-string is the concatenation of its pieces), the empty str is      *)
(* << >>, None is the reserved sequence NoneVal, a bool stored in an       *)
(* optional field is PyBool(b).  A dict is a function whose DOMAIN is the  *)
(* set of keys that are present, so d.get(k, default) is Get(d,k,default). *)
(***************************************************************************)
EXTENDS Integers, Sequences, FiniteSets, TLC

\* ------------------------------------------------------------------ bounds
MaxLen == 2
MaxConcurrent == 2
\* the root is resolved once per call, before the batch: the att_root
\* argument is left out only with lists of at most MaxRootLen targets
MaxRootLen == 1

\* ------------------------------------------------------- input alphabets
Names == {"a", "b"}
REGION == "us"
ENV_NAME == "stage"
CLUSTER_NAME == "main"
ROOT == "/att"
ENV_ROOT == "/env"
CONFIG_ROOT == "/cfg"

\* raw process output: tokens of text and of white space, before strip();
\* the text a failing make writes is arbitrary, here the words "Build failed"
RawStderr == { <<>>, <<" ">>, <<"Build failed">>, <<" ", "Build failed", " ">> }
RawStdout == { <<"out">>, <<"out", " ">> }
\* how many files the glob of the helm build directory can find
SchemaCounts == {0, 1}

\* exceptions the environment can raise; str("badstr") itself raises
Exceptions == {"boom", "badstr"}
StrError == "strfail"

\* --------------------------------------------------------- python values
NoneVal == <<"<None>">>
PyBool(b) == IF b THEN <<"True">> ELSE <<"False">>
Get(d, k, default) == IF k \in DOMAIN d THEN d[k] ELSE default
IsWhite(tok) == tok = " "

RECURSIVE LStrip(_)
LStrip(s) == IF s # <<>> /\ IsWhite(Head(s)) THEN LStrip(Tail(s)) ELSE s

RECURSIVE RStrip(_)
RStrip(s) ==
    IF s # <<>> /\ IsWhite(s[Len(s)]) THEN RStrip(SubSeq(s, 1, Len(s) - 1)) ELSE s

\* bytes.decode().strip()
Strip(s) == RStrip(LStrip(s))

\* str(e) is defined for every exception but "badstr"
CanStr(e) == e # "badstr"
Str(e) == <<e>>

Contains(s, tok) == \E k \in 1..Len(s) : s[k] = tok

\* ================================================================== state
VARIABLES
    entry,           \* the operation that was called
    dt_list,         \* its target list
    max_concurrent,  \* its concurrency limit
    ctx,             \* "ctx" or "None": the tool's context argument
    att_root,        \* the att_root argument (NoneVal when omitted)
    env_root,        \* os.environ.get('ALL_THE_THINGS_ROOT')
    root_exists,     \* Path(att_root).exists()
    pc,              \* where the call is
    sem,             \* the semaphore's counter
    tstate,          \* tstate[i]: where the task of dt_list[i] is
    results,         \* results[i]: what the task of dt_list[i] handed to gather
    invoked,         \* invoked[i]: calls of the single-target builder for i
    spawned,         \* spawned[i]: the external processes created for i
    seen,            \* seen[i]: what the builder's directory checks found
    inverted,        \* history: some task completed before one of lower index
    exits,           \* history: exits[i], the exits of the processes created for i
    batch_out,       \* how build_multiple_* ended
    response,        \* the tool's response
    notes,           \* the notifications sent through ctx
    peer             \* another call of build_multiple_deployables on the same event loop

inputs == <<entry, dt_list, max_concurrent, ctx, att_root, env_root, root_exists>>
tasks == <<sem, tstate, results, invoked, spawned, seen, inverted, exits>>
vars == <<inputs, pc, tasks, batch_out, response, notes, peer>>

ServerEntries == {"build_deployables", "build_helm_deployables"}
BuilderEntries == {"build_multiple_deployables", "build_multiple_helm_deployables"}
IsHelm == entry \in {"build_helm_deployables", "build_multiple_helm_deployables"}
IsServer == entry \in ServerEntries

N == Len(dt_list)
Idx == 1..N
\* ----------------------------------------------------------- build roots
\* mutant: the environment variable wins over the argument
ResolvedRootEnvFirst == IF env_root # NoneVal THEN env_root ELSE att_root

\* build_helm_deployables: the att_root argument, else the environment
ResolvedRoot == IF att_root = NoneVal THEN env_root ELSE att_root

\* the root the K8sBuilder of the call is constructed with
BuildRoot ==
    IF entry = "build_deployables"
    THEN (IF att_root = NoneVal THEN <<CONFIG_ROOT>> ELSE att_root)
    ELSE IF entry = "build_helm_deployables" THEN ResolvedRoot
    ELSE att_root

\* ----------------------------------------------------------------- paths
\* self.deployable_dir / dt_name / "kubernetes" / "build", as str
K8sBuildDir(dt) == BuildRoot \o <<"/deployable/", dt, "/kubernetes/build">>
HelmBuildDir(dt) ==
    K8sBuildDir(dt) \o <<"/", REGION, "-", ENV_NAME, "-", CLUSTER_NAME>>
SchemaFileNames == <<"values.schema.json", "chart.schema.yaml", "x.schema">>
\* list(build_dir.glob("*schema*")) with n matching files
SchemaFiles(n) == [k \in 1..n |-> SchemaFileNames[k]]

\* ------------------------------------------------------ _run_make_command
\* the process ran and exited with rc; raw stdout / stderr were captured
RunMakeExit(rc, out, err) ==
    [success |-> rc = 0, stdout |-> Strip(out), stderr |-> Strip(err),
     returncode |-> rc]
\* except Exception as e: the result carries neither stdout nor stderr
RunMakeError(e) == [success |-> FALSE, error |-> Str(e)]

\* ------------------------------------------------ build_single_deployable
\* mutant: another wording of the error
MissingResultReworded(dt) ==
    [success |-> FALSE, error |-> <<"Deployable ", dt, " not found">>]

\* if not dt_path.exists()
MissingResult(dt) ==
    [success |-> FALSE, error |-> <<"Deployable ", dt, " does not exist">>]

\* mutant: a missing helm directory is reported as a missing target
HelmDirMissingAsTarget(dt) == MissingResult(dt)

\* if not helm_path.exists()
HelmDirMissingResult(dt) ==
    [success |-> FALSE, error |-> <<"Helm directory not found for ", dt>>]

\* the part of build_single_deployable after the make command returned
K8sAfterMake(dt, result) ==
    IF result.success
    THEN [success |-> TRUE, dt |-> dt, build_dir |-> K8sBuildDir(dt),
          validation |-> PyBool(TRUE),
          message |-> <<"Successfully built ", dt>>]
    ELSE [success |-> FALSE, dt |-> dt,
          error |-> Get(result, "stderr", <<"Build failed">>),
          stdout |-> Get(result, "stdout", <<>>)]

\* ------------------------------------------- build_single_helm_deployable
HelmDepFailed(dt, out, err) ==
    [success |-> FALSE, dt |-> dt,
     error |-> <<"Helm dependency update failed: ">> \o Strip(err),
     stdout |-> Strip(out)]

\* mutant: a build without schema files is reported as a failure
HelmAfterMakeStrict(dt, build_result, nfiles) ==
    IF build_result.success /\ nfiles > 0
    THEN [success |-> TRUE, dt |-> dt, build_dir |-> HelmBuildDir(dt),
          region |-> <<REGION>>, env_name |-> <<ENV_NAME>>,
          cluster_name |-> <<CLUSTER_NAME>>,
          schema_files |-> SchemaFiles(nfiles),
          validation |-> PyBool(TRUE),
          message |-> <<"Successfully built helm deployable ", dt, " for ",
                        REGION, "-", ENV_NAME, "-", CLUSTER_NAME>>,
          stdout |-> Get(build_result, "stdout", <<>>)]
    ELSE [success |-> FALSE, dt |-> dt,
          error |-> Get(build_result, "stderr", <<"Helm build failed">>),
          stdout |-> Get(build_result, "stdout", <<>>)]

\* the part after the make command returned; nfiles is what the glob finds
\* (0 when the build directory does not exist)
HelmAfterMake(dt, build_result, nfiles) ==
    IF build_result.success
    THEN [success |-> TRUE, dt |-> dt, build_dir |-> HelmBuildDir(dt),
          region |-> <<REGION>>, env_name |-> <<ENV_NAME>>,
          cluster_name |-> <<CLUSTER_NAME>>,
          schema_files |-> SchemaFiles(nfiles),
          validation |-> PyBool(Len(SchemaFiles(nfiles)) > 0),
          message |-> <<"Successfully built helm deployable ", dt, " for ",
                        REGION, "-", ENV_NAME, "-", CLUSTER_NAME>>,
          stdout |-> Get(build_result, "stdout", <<>>)]
    ELSE [success |-> FALSE, dt |-> dt,
          error |-> Get(build_result, "stderr", <<"Helm build failed">>),
          stdout |-> Get(build_result, "stdout", <<>>)]

\* except Exception as e inside build_single_helm_deployable
HelmBuilderExcept(dt, e) ==
    [success |-> FALSE, dt |-> dt,
     error |-> <<"Helm build exception: ">> \o Str(e)]

\* ------------------------------------------------ the semaphore wrappers
\* "Create build detail object" of build_single_with_semaphore
K8sDetail(build_result, dt_name) ==
    [success |-> build_result.success,
     dt |-> dt_name,
     build_dir |-> Get(build_result, "build_dir", NoneVal),
     validation |-> Get(build_result, "validation", NoneVal),
     message |-> Get(build_result, "message", NoneVal),
     error |-> Get(build_result, "error", NoneVal),
     stdout |-> Get(build_result, "stdout", NoneVal)]

\* "Create build detail object" of build_single_helm_with_semaphore
HelmDetail(build_result, dt_name) ==
    [success |-> build_result.success,
     dt |-> dt_name,
     build_dir |-> Get(build_result, "build_dir", NoneVal),
     region |-> Get(build_result, "region", NoneVal),
     env_name |-> Get(build_result, "env_name", NoneVal),
     cluster_name |-> Get(build_result, "cluster_name", NoneVal),
     schema_files |-> Get(build_result, "schema_files", <<>>),
     validation |-> Get(build_result, "validation", NoneVal),
     message |-> Get(build_result, "message", NoneVal),
     error |-> Get(build_result, "error", NoneVal),
     stdout |-> Get(build_result, "stdout", NoneVal)]

\* except Exception as e of the wrappers (str(e) is defined)
K8sWrapperExcept(dt_name, e) ==
    [success |-> FALSE, dt |-> dt_name,
     error |-> <<"Build exception: ">> \o Str(e)]

HelmWrapperExcept(dt_name, e) ==
    [success |-> FALSE, dt |-> dt_name,
     error |-> <<"Helm build exception: ">> \o Str(e)]

\* --------------------------------------------- what a task hands to gather
Pending == [kind |-> "pending"]
TaskValue(d) == [kind |-> "value", value |-> d]
TaskRaised(e) == [kind |-> "exception", exc |-> e]

\* mutant: the wrapper has no try/except of its own
K8sWrapperNoCatch(dt_name, e) == TaskRaised(e)

\* the wrapper's try/except around the single-target builder, when the
\* builder raised e: the handler formats str(e), which may itself raise
K8sWrapperCatch(dt_name, e) ==
    IF CanStr(e) THEN TaskValue(K8sWrapperExcept(dt_name, e))
    ELSE TaskRaised(StrError)

HelmWrapperCatch(dt_name, e) ==
    IF CanStr(e) THEN TaskValue(HelmWrapperExcept(dt_name, e))
    ELSE TaskRaised(StrError)

\* asyncio.gather(*tasks, return_exceptions=True): one entry per task, at
\* the task's index, whatever the order in which the tasks completed
Gather(res, n) == [i \in 1..n |-> res[i]]

\* ------------------------------------------- "Process results and exceptions"
TaskExceptionDetail(helm, dt_name, e) ==
    [success |-> FALSE, dt |-> dt_name,
     error |-> (IF helm THEN <<"Helm task exception: ">>
                ELSE <<"Task exception: ">>) \o Str(e)]

NoDetails ==
    [successful_dts |-> <<>>, failed_dts |-> <<>>, processed_details |-> <<>>]

\* mutant: a task that raised is logged and skipped
ProcessOneSkipping(helm, acc, dt_name, detail) ==
    IF detail.kind = "exception" THEN acc
    ELSE IF detail.value.success
    THEN [acc EXCEPT
            !.successful_dts = Append(@, dt_name),
            !.processed_details = Append(@, detail.value)]
    ELSE [acc EXCEPT
            !.failed_dts = Append(@, dt_name),
            !.processed_details = Append(@, detail.value)]

\* mutant: a name is listed once, however often it occurs in dt_list
ProcessOneUnique(helm, acc, dt_name, detail) ==
    LET add(l) == IF \E k \in 1..Len(l) : l[k] = dt_name THEN l
                  ELSE Append(l, dt_name)
    IN  IF detail.kind = "exception"
        THEN [acc EXCEPT
                !.failed_dts = add(@),
                !.processed_details =
                    Append(@, TaskExceptionDetail(helm, dt_name, detail.exc))]
        ELSE IF detail.value.success
        THEN [acc EXCEPT
                !.successful_dts = add(@),
                !.processed_details = Append(@, detail.value)]
        ELSE [acc EXCEPT
                !.failed_dts = add(@),
                !.processed_details = Append(@, detail.value)]

\* one iteration of  for i, detail in enumerate(build_details)
ProcessOne(helm, acc, dt_name, detail) ==
    IF detail.kind = "exception"
    THEN [acc EXCEPT
            !.failed_dts = Append(@, dt_name),
            !.processed_details =
                Append(@, TaskExceptionDetail(helm, dt_name, detail.exc))]
    ELSE IF detail.value.success
    THEN [acc EXCEPT
            !.successful_dts = Append(@, dt_name),
            !.processed_details = Append(@, detail.value)]
    ELSE [acc EXCEPT
            !.failed_dts = Append(@, dt_name),
            !.processed_details = Append(@, detail.value)]

RECURSIVE ProcessDetails(_, _, _, _)
ProcessDetails(helm, dts, build_details, k) ==
    IF k = 0 THEN NoDetails
    ELSE ProcessOne(helm, ProcessDetails(helm, dts, build_details, k - 1),
                    dts[k], build_details[k])

\* mutant: no template of its own for a batch in which every target failed
SummaryMessageTwoWay(helm, success_count, failure_count) ==
    LET head == IF helm THEN "Concurrent batch Helm build "
                ELSE "Concurrent batch build "
    IN  IF failure_count = 0
        THEN <<head, "completed! All ", ToString(success_count),
               " DTs built successfully">>
        ELSE <<head, "partially successful! ", ToString(success_count),
               " successful, ", ToString(failure_count), " failed">>

\* "Generate summary message"
SummaryMessage(helm, success_count, failure_count) ==
    LET head == IF helm THEN "Concurrent batch Helm build "
                ELSE "Concurrent batch build "
    IN  IF failure_count = 0
        THEN <<head, "completed! All ", ToString(success_count),
               " DTs built successfully">>
        ELSE IF success_count = 0
        THEN <<head, "failed! All ", ToString(failure_count),
               " DTs failed to build">>
        ELSE <<head, "partially successful! ", ToString(success_count),
               " successful, ", ToString(failure_count), " failed">>

\* mutant: the two name lists are filled as the tasks complete
BatchResultByCompletion(helm, dts, build_details) ==
    LET acc == ProcessDetails(helm, dts, build_details, Len(build_details))
        success_count == Len(acc.successful_dts)
        failure_count == Len(acc.failed_dts)
        Reverse(l) == [k \in 1..Len(l) |-> l[Len(l) + 1 - k]]
        order(l) == IF inverted THEN Reverse(l) ELSE l
    IN  [success |-> failure_count = 0,
         total_dts |-> Len(dts),
         successful_dts |-> order(acc.successful_dts),
         failed_dts |-> order(acc.failed_dts),
         success_count |-> success_count,
         failure_count |-> failure_count,
         build_details |-> acc.processed_details,
         message |-> SummaryMessage(helm, success_count, failure_count)]

\* the dict returned after gather
BatchResult(helm, dts, build_details) ==
    LET acc == ProcessDetails(helm, dts, build_details, Len(build_details))
        success_count == Len(acc.successful_dts)
        failure_count == Len(acc.failed_dts)
    IN  [success |-> failure_count = 0,
         total_dts |-> Len(dts),
         successful_dts |-> acc.successful_dts,
         failed_dts |-> acc.failed_dts,
         success_count |-> success_count,
         failure_count |-> failure_count,
         build_details |-> acc.processed_details,
         message |-> SummaryMessage(helm, success_count, failure_count)]

\* if not dt_list
EmptyBatchResult ==
    [success |-> TRUE, total_dts |-> 0, successful_dts |-> <<>>,
     failed_dts |-> <<>>, success_count |-> 0, failure_count |-> 0,
     build_details |-> <<>>,
     message |-> <<"No DT list provided for building">>]

\* ------------------------------------------------ outcomes of a code block
Ret(v) == [kind |-> "return", value |-> v]
Raise(e) == [kind |-> "raise", exc |-> e]

\* except Exception as e of _run_make_command: logs f"...{e}" first
RunMakeCatch(e) == IF CanStr(e) THEN Ret(RunMakeError(e)) ELSE Raise(StrError)

\* build_single_deployable has no try: what _run_make_command raises leaves it
K8sBuilderFromMake(dt, o) ==
    IF o.kind = "raise" THEN o ELSE Ret(K8sAfterMake(dt, o.value))

\* except Exception as e of build_single_helm_deployable: logs f"...{e}" first
HelmBuilderCatch(dt, e) ==
    IF CanStr(e) THEN Ret(HelmBuilderExcept(dt, e)) ELSE Raise(StrError)

HelmBuilderFromMake(dt, o, nfiles) ==
    IF o.kind = "raise" THEN HelmBuilderCatch(dt, o.exc)
    ELSE Ret(HelmAfterMake(dt, o.value, nfiles))

\* build_single_with_semaphore, given how the builder call ended
K8sWrapper(dt_name, b) ==
    IF b.kind = "raise" THEN K8sWrapperCatch(dt_name, b.exc)
    ELSE TaskValue(K8sDetail(b.value, dt_name))

\* build_single_helm_with_semaphore, given how the builder call ended
HelmWrapper(dt_name, b) ==
    IF b.kind = "raise" THEN HelmWrapperCatch(dt_name, b.exc)
    ELSE TaskValue(HelmDetail(b.value, dt_name))

\* ------------------------------------------------------------- server.py
ErrSemaphore == <<"Semaphore initial value must be >= 0">>
ErrNoRoot ==
    <<"ATT_ROOT environment variable is not set and att_root parameter is not provided">>
ErrRootMissing(root) == <<"ATT_ROOT directory does not exist: ">> \o root
ErrNoCtx == <<"'NoneType' object has no attribute 'info'">>

\* K8sBuildResult(success=detail["success"], dt=detail["dt"], ...)
ToK8sBuildResult(detail) ==
    [success |-> detail.success, dt |-> detail.dt,
     build_dir |-> Get(detail, "build_dir", NoneVal),
     validation |-> Get(detail, "validation", NoneVal),
     message |-> Get(detail, "message", NoneVal),
     error |-> Get(detail, "error", NoneVal),
     stdout |-> Get(detail, "stdout", NoneVal)]

ToHelmBuildResult(detail) ==
    [success |-> detail.success, dt |-> detail.dt,
     region |-> Get(detail, "region", NoneVal),
     env_name |-> Get(detail, "env_name", NoneVal),
     cluster_name |-> Get(detail, "cluster_name", NoneVal),
     build_dir |-> Get(detail, "build_dir", NoneVal),
     schema_files |-> Get(detail, "schema_files", NoneVal),
     validation |-> Get(detail, "validation", NoneVal),
     message |-> Get(detail, "message", NoneVal),
     error |-> Get(detail, "error", NoneVal),
     stdout |-> Get(detail, "stdout", NoneVal)]

\* "Convert result format"
ToBatchResult(helm, build_result) ==
    [success |-> build_result.success,
     total_dts |-> build_result.total_dts,
     successful_dts |-> build_result.successful_dts,
     failed_dts |-> build_result.failed_dts,
     success_count |-> build_result.success_count,
     failure_count |-> build_result.failure_count,
     build_details |->
        [k \in 1..Len(build_result.build_details) |->
            IF helm THEN ToHelmBuildResult(build_result.build_details[k])
            ELSE ToK8sBuildResult(build_result.build_details[k])],
     message |-> build_result.message,
     error |-> NoneVal]

\* the whole-batch error responses: ctx is None, and except Exception as e
ErrorResponse(dts, msg) ==
    [success |-> FALSE,
     total_dts |-> Len(dts),
     successful_dts |-> <<>>,
     failed_dts |-> dts,
     success_count |-> 0,
     failure_count |-> Len(dts),
     build_details |-> <<>>,
     message |-> msg,
     error |-> msg]

\* build_deployables: if not dt_list
EmptyResponse ==
    [success |-> TRUE, total_dts |-> 0, successful_dts |-> <<>>,
     failed_dts |-> <<>>, success_count |-> 0, failure_count |-> 0,
     build_details |-> <<>>,
     message |-> <<"No DT list provided for building">>,
     error |-> NoneVal]

K8sExceptMsg(e_str) == <<"Batch build DT failed: ">> \o e_str
HelmExceptMsg(e_str) == <<"Batch helm build DT failed: ">> \o e_str

\* ---------------------------------------------------------- notifications
Info(text) == [level |-> "info", text |-> text]
Error(text) == [level |-> "error", text |-> text]
FmtNone(s) == IF s = NoneVal THEN <<"None">> ELSE s

\* f"  - {detail.dt}: {detail.error}" for every failed detail, joined by "\n"
RECURSIVE FailedLines(_, _)
FailedLines(details, k) ==
    IF k = 0 THEN <<>>
    ELSE FailedLines(details, k - 1) \o
         (IF details[k].success THEN <<>>
          ELSE <<"\n", "  - ", details[k].dt, ": ">> \o FmtNone(details[k].error))

\* f"  - {detail.dt}: {len(detail.schema_files)} schema files"
RECURSIVE SchemaLines(_, _)
SchemaLines(details, k) ==
    IF k = 0 THEN <<>>
    ELSE SchemaLines(details, k - 1) \o
         (IF details[k].success /\ details[k].schema_files # NoneVal
             /\ details[k].schema_files # <<>>
          THEN <<"\n", "  - ", details[k].dt, ": ",
                 ToString(Len(details[k].schema_files)), " schema files">>
          ELSE <<>>)

\* "Report progress and results": the summary notification
SummaryNote(helm, r) ==
    LET head == IF helm THEN "Batch helm build " ELSE "Batch build "
    IN  IF r.success
        THEN Info(<<head, "completed successfully! All ",
                    ToString(r.success_count), " DTs built successfully">>)
        ELSE IF r.success_count = 0
        THEN Error(<<head, "failed! All ", ToString(r.failure_count),
                     " DTs failed to build">>)
        ELSE Info(<<head, "partially successful! ", ToString(r.success_count),
                    " successful, ", ToString(r.failure_count), " failed">>)

\* ------------------------------------------------------- asyncio.Semaphore
\* mutant: the wrapper runs the build without waiting for a slot
CanAcquireUnbounded(s) == TRUE

\* mutant: a rate limiter that keeps one slot in reserve
CanAcquirePaced(s) == s > 1

\* async with semaphore: proceeds only while the counter is positive
CanAcquire(s) == s > 0
Acquire(s) == s - 1
Release(s) == s + 1

\* ------------------------------------------------------------------- init
RECURSIVE SeqsUpTo(_, _)
SeqsUpTo(S, n) ==
    IF n = 0 THEN { <<>> }
    ELSE LET shorter == SeqsUpTo(S, n - 1)
         IN  shorter \cup { Append(s, x) : s \in shorter, x \in S }

Unset == [kind |-> "unset"]

\* a second call has locals of its own: its dt_list and max_concurrent, its
\* semaphore, its tasks and what they hand to its gather
PeerCall(dts, m) ==
    [dt_list |-> dts, max_concurrent |-> m, pc |-> "batch", sem |-> 0,
     tstate |-> [i \in 1..Len(dts) |-> "new"],
     results |-> [i \in 1..Len(dts) |-> Pending],
     out |-> Unset]
\* no second call is made
NoPeer == [PeerCall(<<>>, 0) EXCEPT !.pc = "none"]

\* the state at the call of a tool or of build_multiple_*
CallInit ==
    /\ entry \in ServerEntries \cup BuilderEntries
    /\ dt_list \in SeqsUpTo(Names, MaxLen)
    /\ dt_list # <<>> => dt_list[1] = "a"    \* names are interchangeable
    /\ max_concurrent \in (-1)..MaxConcurrent
    /\ ctx \in (IF IsServer THEN {"ctx", "None"} ELSE {"None"})
    /\ att_root \in (IF IsServer /\ Len(dt_list) <= MaxRootLen
                     THEN {NoneVal, <<ROOT>>} ELSE {<<ROOT>>})
    /\ env_root \in (IF entry = "build_helm_deployables" /\ att_root = NoneVal
                     THEN {NoneVal, <<ENV_ROOT>>} ELSE {<<ENV_ROOT>>})
    /\ root_exists \in (IF entry = "build_helm_deployables"
                        THEN BOOLEAN ELSE {TRUE})
    /\ pc = (IF IsServer THEN "call" ELSE "batch")
    /\ sem = 0
    /\ tstate = [i \in Idx |-> "new"]
    /\ results = [i \in Idx |-> Pending]
    /\ invoked = [i \in Idx |-> 0]
    /\ spawned = [i \in Idx |-> <<>>]
    /\ seen = [i \in Idx |-> "unchecked"]
    /\ inverted = FALSE
    /\ exits = [i \in Idx |-> <<>>]
    /\ batch_out = Unset
    /\ response = Unset
    /\ notes = <<>>

Init == CallInit /\ peer = NoPeer

\* ------------------------------------------------ build_deployables, start
RunningNote ==
    Info(<<"Running concurrent batch ", (IF IsHelm THEN "helm build" ELSE "build"),
           " of ", ToString(N), " DTs (max concurrent: ",
           ToString(max_concurrent), ")...">>)

ServerK8sCall ==
    /\ pc = "call" /\ entry = "build_deployables"
    /\ UNCHANGED <<inputs, peer, tasks, batch_out>>
    /\ IF ctx = "None"
       THEN /\ response' = ErrorResponse(dt_list, <<"Invalid context">>)
            /\ pc' = "done"
            /\ UNCHANGED notes
       ELSE IF dt_list = <<>>
       THEN /\ response' = EmptyResponse
            /\ pc' = "done"
            /\ UNCHANGED notes
       ELSE /\ notes' = Append(notes, RunningNote)
            /\ pc' = "batch"
            /\ UNCHANGED response

\* ------------------------------------------- build_helm_deployables, start
HelmRegionFields == [region |-> <<REGION>>, env_name |-> <<ENV_NAME>>,
                     cluster_name |-> <<CLUSTER_NAME>>]
WithRegion(r) == [k \in DOMAIN r \cup DOMAIN HelmRegionFields |->
                    IF k \in DOMAIN HelmRegionFields THEN HelmRegionFields[k] ELSE r[k]]

\* except Exception as e of build_helm_deployables
HelmExcept(e_str) ==
    /\ notes' = (IF ctx = "None" THEN notes
                 ELSE Append(notes, Error(HelmExceptMsg(e_str))))
    /\ response' = WithRegion(ErrorResponse(dt_list, HelmExceptMsg(e_str)))
    /\ pc' = "done"

HelmStartNotes ==
    << Info(<<"Starting helm build for ", ToString(N), " DTs: ">> \o dt_list),
       Info(<<"Target: ", REGION, "-", ENV_NAME, "-", CLUSTER_NAME>>),
       Info(<<"Using ATT_ROOT: ">> \o ResolvedRoot),
       Info(<<"Max concurrent builds: ", ToString(max_concurrent)>>),
       RunningNote >>

ServerHelmCall ==
    /\ pc = "call" /\ entry = "build_helm_deployables"
    /\ UNCHANGED <<inputs, peer, tasks, batch_out>>
    /\ IF ResolvedRoot = NoneVal THEN HelmExcept(ErrNoRoot)
       ELSE IF ~root_exists THEN HelmExcept(ErrRootMissing(ResolvedRoot))
       ELSE IF ctx = "None" THEN HelmExcept(ErrNoCtx)
       ELSE /\ notes' = notes \o HelmStartNotes
            /\ pc' = "batch"
            /\ UNCHANGED response

\* ----------------- build_multiple_deployables / build_multiple_helm_deployables
BatchReturned(r) == [kind |-> "returned", value |-> r]
BatchRaised(e_str) == [kind |-> "raised", exc |-> e_str]

\* mutant: no early return for the empty list
BatchStartNoEmptyCheck ==
    /\ pc = "batch"
    /\ UNCHANGED <<inputs, peer, results, invoked, spawned, seen, inverted, exits, response, notes>>
    /\ IF max_concurrent < 0
       THEN /\ batch_out' = BatchRaised(ErrSemaphore)
            /\ pc' = "raised"
            /\ UNCHANGED <<sem, tstate>>
       ELSE /\ sem' = max_concurrent
            /\ tstate' = [i \in Idx |-> "waiting"]
            /\ pc' = "gather"
            /\ UNCHANGED batch_out

\* from the call to the await of gather: the empty list returns at once,
\* asyncio.Semaphore(max_concurrent) raises ValueError for a negative value,
\* otherwise one task per position of dt_list is created
BatchStart ==
    /\ pc = "batch"
    /\ UNCHANGED <<inputs, peer, results, invoked, spawned, seen, inverted, exits, response, notes>>
    /\ IF dt_list = <<>>
       THEN /\ batch_out' = BatchReturned(EmptyBatchResult)
            /\ pc' = "returned"
            /\ UNCHANGED <<sem, tstate>>
       ELSE IF max_concurrent < 0
       THEN /\ batch_out' = BatchRaised(ErrSemaphore)
            /\ pc' = "raised"
            /\ UNCHANGED <<sem, tstate>>
       ELSE /\ sem' = max_concurrent
            /\ tstate' = [i \in Idx |-> "waiting"]
            /\ pc' = "gather"
            /\ UNCHANGED batch_out

\* mutant: results are appended to a shared list as the tasks complete
SettleAppending(i, r, held) ==
    /\ results' = [results EXCEPT
                        ![Cardinality({j \in Idx : tstate[j] = "done"}) + 1] = r]
    /\ tstate' = [tstate EXCEPT ![i] = "done"]
    /\ inverted' = (inverted \/ \E j \in 1..(i - 1) : tstate[j] # "done")
    /\ sem' = Release(held)

\* mutant: a target whose result is a failure is queued again, once
SettleRetrying(i, r, held) ==
    /\ sem' = Release(held)
    /\ IF r.kind = "value" /\ ~r.value.success /\ invoked[i] < 2
       THEN /\ tstate' = [tstate EXCEPT ![i] = "waiting"]
            /\ UNCHANGED <<results, inverted>>
       ELSE /\ results' = [results EXCEPT ![i] = r]
            /\ tstate' = [tstate EXCEPT ![i] = "done"]
            /\ inverted' = (inverted \/ \E j \in 1..(i - 1) : tstate[j] # "done")

\* what is recorded of a process that exited: its command, its return code
\* and, when it failed, its captured (decoded, stripped) outputs
ProcExit(cmd, rc) == [cmd |-> cmd, rc |-> rc]
ProcExitWith(cmd, rc, out, err) ==
    IF rc = 0 THEN ProcExit(cmd, rc)
    ELSE [cmd |-> cmd, rc |-> rc, stdout |-> Strip(out), stderr |-> Strip(err)]

\* mutant: acquire and release by hand, the release skipped when the task
\* ends with a failure or an exception
SettleLeaking(i, r, held) ==
    /\ results' = [results EXCEPT ![i] = r]
    /\ tstate' = [tstate EXCEPT ![i] = "done"]
    /\ inverted' = (inverted \/ \E j \in 1..(i - 1) : tstate[j] # "done")
    /\ sem' = (IF r.kind = "value" /\ r.value.success THEN Release(held) ELSE held)

\* the task of position i ends with r and leaves "async with semaphore";
\* held is the counter while the task held its slot
Settle(i, r, held) ==
    /\ results' = [results EXCEPT ![i] = r]
    /\ tstate' = [tstate EXCEPT ![i] = "done"]
    /\ inverted' = (inverted \/ \E j \in 1..(i - 1) : tstate[j] # "done")
    /\ sem' = Release(held)

\* mutant: the slot is given back while the external process runs
SuspendReleasing(i, at, held) ==
    /\ tstate' = [tstate EXCEPT ![i] = at]
    /\ sem' = (IF at \in {"helm_run", "make_run"} THEN Release(held) ELSE held)
    /\ UNCHANGED <<results, inverted>>

\* the task of position i suspends at an await, keeping its slot
Suspend(i, at, held) ==
    /\ tstate' = [tstate EXCEPT ![i] = at]
    /\ sem' = held
    /\ UNCHANGED <<results, inverted>>

\* build_single_with_semaphore up to its first await: acquire the slot, call
\* build_single_deployable, which checks dt_path.exists()
StartK8s(i) ==
    /\ pc = "gather" /\ ~IsHelm
    /\ tstate[i] = "waiting" /\ CanAcquire(sem)
    /\ invoked' = [invoked EXCEPT ![i] = @ + 1]
    /\ UNCHANGED <<inputs, peer, pc, spawned, exits, batch_out, response, notes>>
    /\ \/ /\ seen' = [seen EXCEPT ![i] = "error"]
          /\ \E e \in Exceptions :
                Settle(i, K8sWrapper(dt_list[i], Raise(e)), Acquire(sem))
       \/ /\ seen' = [seen EXCEPT ![i] = "missing"]
          /\ Settle(i, K8sWrapper(dt_list[i], Ret(MissingResult(dt_list[i]))),
                    Acquire(sem))
       \/ /\ seen' = [seen EXCEPT ![i] = "present"]
          /\ Suspend(i, "make_spawn", Acquire(sem))

\* build_single_helm_with_semaphore up to its first await: acquire the slot,
\* call build_single_helm_deployable, which checks dt_path and helm_path
StartHelm(i) ==
    /\ pc = "gather" /\ IsHelm
    /\ tstate[i] = "waiting" /\ CanAcquire(sem)
    /\ invoked' = [invoked EXCEPT ![i] = @ + 1]
    /\ UNCHANGED <<inputs, peer, pc, spawned, exits, batch_out, response, notes>>
    /\ \/ /\ seen' = [seen EXCEPT ![i] = "error"]
          /\ \E e \in Exceptions :
                Settle(i, HelmWrapper(dt_list[i], Raise(e)), Acquire(sem))
       \/ /\ seen' = [seen EXCEPT ![i] = "missing"]
          /\ Settle(i, HelmWrapper(dt_list[i], Ret(MissingResult(dt_list[i]))),
                    Acquire(sem))
       \/ /\ seen' = [seen EXCEPT ![i] = "nohelm"]
          /\ Settle(i, HelmWrapper(dt_list[i], Ret(HelmDirMissingResult(dt_list[i]))),
                    Acquire(sem))
       \/ /\ seen' = [seen EXCEPT ![i] = "present"]
          /\ Suspend(i, "helm_spawn", Acquire(sem))

\* await asyncio.create_subprocess_exec("helm", "dependency", "update")
HelmSpawn(i) ==
    /\ pc = "gather" /\ tstate[i] = "helm_spawn"
    /\ UNCHANGED <<inputs, peer, pc, invoked, seen, exits, batch_out, response, notes>>
    /\ \/ /\ spawned' = [spawned EXCEPT ![i] = Append(@, "helm")]
          /\ Suspend(i, "helm_run", sem)
       \/ /\ UNCHANGED spawned
          /\ \E e \in Exceptions :
                Settle(i, HelmWrapper(dt_list[i], HelmBuilderCatch(dt_list[i], e)), sem)

\* mutant: the return code of helm dependency update is not looked at
HelmExitIgnoringStatus(i) ==
    /\ pc = "gather" /\ tstate[i] = "helm_run"
    /\ UNCHANGED <<inputs, peer, pc, invoked, spawned, seen, batch_out, response, notes>>
    /\ \/ /\ Suspend(i, "make_spawn", sem)
          /\ \E rc \in {0, 1}, out \in RawStdout, err \in RawStderr :
                exits' = [exits EXCEPT ![i] =
                            Append(@, ProcExitWith("helm", rc, out, err))]
       \/ /\ UNCHANGED exits
          /\ \E e \in Exceptions :
                Settle(i, HelmWrapper(dt_list[i], HelmBuilderCatch(dt_list[i], e)), sem)

\* await process.communicate() of helm dependency update, then the check of
\* its return code; on zero the make command is started
HelmExit(i) ==
    /\ pc = "gather" /\ tstate[i] = "helm_run"
    /\ UNCHANGED <<inputs, peer, pc, invoked, spawned, seen, batch_out, response, notes>>
    /\ \/ /\ Suspend(i, "make_spawn", sem)
          /\ exits' = [exits EXCEPT ![i] = Append(@, ProcExit("helm", 0))]
       \/ \E out \in RawStdout, err \in RawStderr :
            /\ Settle(i, HelmWrapper(dt_list[i], Ret(HelmDepFailed(dt_list[i], out, err))),
                      sem)
            /\ exits' = [exits EXCEPT ![i] =
                            Append(@, ProcExitWith("helm", 1, out, err))]
       \/ /\ UNCHANGED exits
          /\ \E e \in Exceptions :
                Settle(i, HelmWrapper(dt_list[i], HelmBuilderCatch(dt_list[i], e)), sem)

\* how the builder call ends once _run_make_command ended with o
AfterMake(i, o, nfiles) ==
    IF IsHelm
    THEN HelmWrapper(dt_list[i], HelmBuilderFromMake(dt_list[i], o, nfiles))
    ELSE K8sWrapper(dt_list[i], K8sBuilderFromMake(dt_list[i], o))

\* await asyncio.create_subprocess_exec("make", ...) in _run_make_command
MakeSpawn(i) ==
    /\ pc = "gather" /\ tstate[i] = "make_spawn"
    /\ UNCHANGED <<inputs, peer, pc, invoked, seen, exits, batch_out, response, notes>>
    /\ \/ /\ spawned' = [spawned EXCEPT ![i] = Append(@, "make")]
          /\ Suspend(i, "make_run", sem)
       \/ /\ UNCHANGED spawned
          /\ \E e \in Exceptions : Settle(i, AfterMake(i, RunMakeCatch(e), 0), sem)

\* await process.communicate() of make, then the rest of the builder and of
\* the wrapper; the helm path globs the build directory (nfiles matches,
\* none when the directory is missing), which may raise
MakeExit(i) ==
    /\ pc = "gather" /\ tstate[i] = "make_run"
    /\ UNCHANGED <<inputs, peer, pc, invoked, spawned, batch_out, response, notes>>
    /\ \/ \E rc \in {0, 1}, out \in RawStdout, err \in RawStderr,
             nfiles \in SchemaCounts :
            /\ Settle(i, AfterMake(i, Ret(RunMakeExit(rc, out, err)), nfiles), sem)
            /\ exits' = [exits EXCEPT ![i] =
                            Append(@, ProcExitWith("make", rc, out, err))]
            /\ UNCHANGED seen
       \/ /\ UNCHANGED <<exits, seen>>
          /\ \E e \in Exceptions : Settle(i, AfterMake(i, RunMakeCatch(e), 0), sem)
       \/ /\ IsHelm
          /\ exits' = [exits EXCEPT ![i] = Append(@, ProcExit("make", 0))]
          /\ seen' = [seen EXCEPT ![i] = "error"]
          /\ \E e \in Exceptions :
                Settle(i, HelmWrapper(dt_list[i], HelmBuilderCatch(dt_list[i], e)), sem)

\* mutant: gather without return_exceptions=True ends at the first task
\* that raised, while its siblings are still queued or running
BatchReturnFailFast ==
    /\ pc = "gather"
    /\ UNCHANGED <<inputs, peer, tasks, response, notes>>
    /\ IF \E i \in Idx : results[i].kind = "exception"
       THEN /\ batch_out' = BatchRaised(<<StrError>>)
            /\ pc' = "raised"
       ELSE /\ \A i \in Idx : tstate[i] = "done"
            /\ batch_out' =
                  BatchReturned(BatchResult(IsHelm, dt_list, Gather(results, N)))
            /\ pc' = "returned"

\* gather resumes once every task is done; the rest of build_multiple_*
BatchReturn ==
    /\ pc = "gather"
    /\ \A i \in Idx : tstate[i] = "done"
    /\ batch_out' = BatchReturned(BatchResult(IsHelm, dt_list, Gather(results, N)))
    /\ pc' = "returned"
    /\ UNCHANGED <<inputs, peer, tasks, response, notes>>

\* -------------------------------------- the tools, after build_multiple_*
\* mutant: the report is sent without looking at failed_dts
FailedNotesUnguarded(helm, r) ==
    LET lines == FailedLines(r.build_details, Len(r.build_details))
        head == IF helm THEN "Failed helm DT details:" ELSE "Failed DT details:"
    IN  << Error(<<head>> \o lines) >>

\* "Detailed report of failed DTs"
FailedNotes(helm, r) ==
    LET lines == FailedLines(r.build_details, Len(r.build_details))
        head == IF helm THEN "Failed helm DT details:" ELSE "Failed DT details:"
    IN  IF r.failed_dts # <<>> /\ lines # <<>>
        THEN << Error(<<head>> \o lines) >>
        ELSE <<>>

\* "Report schema files"
SchemaNotes(r) ==
    LET lines == SchemaLines(r.build_details, Len(r.build_details))
    IN  IF r.success /\ r.build_details # <<>> /\ lines # <<>>
        THEN << Info(<<"Schema files generated:">> \o lines) >>
        ELSE <<>>

TargetNote == Info(<<"Target: ", REGION, "-", ENV_NAME, "-", CLUSTER_NAME>>)

\* build_deployables from "Convert result format" to its return, and its
\* except Exception as e when build_multiple_deployables raised
ServerK8sFinish ==
    /\ entry = "build_deployables"
    /\ pc \in {"returned", "raised"}
    /\ UNCHANGED <<inputs, peer, tasks, batch_out>>
    /\ pc' = "done"
    /\ IF pc = "returned"
       THEN LET r == ToBatchResult(FALSE, batch_out.value)
            IN  /\ response' = r
                /\ notes' = notes \o <<SummaryNote(FALSE, r)>> \o FailedNotes(FALSE, r)
       ELSE /\ response' = ErrorResponse(dt_list, K8sExceptMsg(batch_out.exc))
            /\ notes' = Append(notes, Error(K8sExceptMsg(batch_out.exc)))

ServerHelmFinish ==
    /\ entry = "build_helm_deployables"
    /\ pc \in {"returned", "raised"}
    /\ UNCHANGED <<inputs, peer, tasks, batch_out>>
    /\ IF pc = "returned"
       THEN LET r == WithRegion(ToBatchResult(TRUE, batch_out.value))
            IN  /\ response' = r
                /\ pc' = "done"
                /\ notes' = notes \o <<SummaryNote(TRUE, r)>>
                              \o (IF r.success THEN <<TargetNote>> ELSE <<>>)
                              \o FailedNotes(TRUE, r) \o SchemaNotes(r)
       ELSE HelmExcept(batch_out.exc)

Next ==
    \/ ServerK8sCall
    \/ ServerHelmCall
    \/ BatchStart
    \/ \E i \in Idx : StartK8s(i)
    \/ \E i \in Idx : StartHelm(i)
    \/ \E i \in Idx : HelmSpawn(i)
    \/ \E i \in Idx : HelmExit(i)
    \/ \E i \in Idx : MakeSpawn(i)
    \/ \E i \in Idx : MakeExit(i)
    \/ BatchReturn
    \/ ServerK8sFinish
    \/ ServerHelmFinish

Spec == Init /\ [][Next]_vars

\* --------------------------------------------- a build that never exits
\* no timeout is put around process.communicate(): the external processes of
\* the target named HungName never exit, everything else runs as before
HungName == "b"
Hangs(i) == dt_list[i] = HungName

HungNext ==
    \/ ServerK8sCall
    \/ ServerHelmCall
    \/ BatchStart
    \/ \E i \in Idx : StartK8s(i)
    \/ \E i \in Idx : StartHelm(i)
    \/ \E i \in Idx : HelmSpawn(i)
    \/ \E i \in Idx : ~Hangs(i) /\ HelmExit(i)
    \/ \E i \in Idx : MakeSpawn(i)
    \/ \E i \in Idx : ~Hangs(i) /\ MakeExit(i)
    \/ BatchReturn
    \/ ServerK8sFinish
    \/ ServerHelmFinish

\* the event loop still resumes every task that can run
HungSpec == Init /\ [][HungNext]_vars /\ WF_vars(HungNext)

\* ------------------------------------- two calls on the same event loop
\* the second call builds other targets; the steps of its tasks are those of
\* build_multiple_deployables, with the single-target build taken as one
\* await between the acquisition of the slot and the exit of make
PeerList == <<"c", "d">>
PeerIdx == 1..Len(peer.dt_list)
PeerInFlight == {i \in PeerIdx : peer.tstate[i] = "running"}
PeerWaiting == {i \in PeerIdx : peer.tstate[i] = "waiting"}
PeerUnchanged == UNCHANGED <<inputs, pc, tasks, batch_out, response, notes>>

\* mutant: one lock for all batches, a batch admits targets only while the
\* other has none in flight
PeerCanAcquireLocked ==
    CanAcquire(peer.sem) /\ {i \in Idx : tstate[i] \in
                                {"helm_spawn", "helm_run", "make_spawn", "make_run"}} = {}

\* async with semaphore, on the semaphore created by the second call
PeerCanAcquire == CanAcquire(peer.sem)

\* semaphore = asyncio.Semaphore(max_concurrent) and the creation of the tasks
PeerBatchStart ==
    /\ peer.pc = "batch"
    /\ peer' = [peer EXCEPT !.sem = peer.max_concurrent,
                            !.tstate = [i \in PeerIdx |-> "waiting"],
                            !.pc = "gather"]
    /\ PeerUnchanged

\* build_single_with_semaphore up to the await of the make process
PeerStart(i) ==
    /\ peer.pc = "gather" /\ peer.tstate[i] = "waiting" /\ PeerCanAcquire
    /\ peer' = [peer EXCEPT !.sem = Acquire(@), !.tstate[i] = "running"]
    /\ PeerUnchanged

\* make exits; the rest of the builder and of the wrapper
PeerExit(i) ==
    /\ peer.pc = "gather" /\ peer.tstate[i] = "running"
    /\ \E rc \in {0, 1} :
          peer' = [peer EXCEPT
                     !.sem = Release(@),
                     !.tstate[i] = "done",
                     !.results[i] =
                        K8sWrapper(peer.dt_list[i],
                            Ret(K8sAfterMake(peer.dt_list[i],
                                    RunMakeExit(rc, <<"out">>, <<"Build failed">>))))]
    /\ PeerUnchanged

\* gather resumes once every task of the second call is done
PeerReturn ==
    /\ peer.pc = "gather"
    /\ \A i \in PeerIdx : peer.tstate[i] = "done"
    /\ peer' = [peer EXCEPT
                  !.pc = "returned",
                  !.out = BatchReturned(BatchResult(FALSE, peer.dt_list,
                                Gather(peer.results, Len(peer.dt_list))))]
    /\ PeerUnchanged

\* both calls are calls of build_multiple_*; the second one has a list of
\* its own and a limit of its own
TwoInit ==
    /\ CallInit
    /\ entry \in BuilderEntries
    /\ peer \in {PeerCall(PeerList, m) : m \in 1..MaxConcurrent}

TwoNext ==
    \/ BatchStart
    \/ \E i \in Idx : StartK8s(i)
    \/ \E i \in Idx : StartHelm(i)
    \/ \E i \in Idx : HelmSpawn(i)
    \/ \E i \in Idx : HelmExit(i)
    \/ \E i \in Idx : MakeSpawn(i)
    \/ \E i \in Idx : MakeExit(i)
    \/ BatchReturn
    \/ PeerBatchStart
    \/ \E i \in PeerIdx : PeerStart(i)
    \/ \E i \in PeerIdx : PeerExit(i)
    \/ PeerReturn

TwoBatchSpec == TwoInit /\ [][TwoNext]_vars

\* ================================================================ claims
Min(a, b) == IF a < b THEN a ELSE b
Max(a, b) == IF a > b THEN a ELSE b

InFlightStates == {"helm_spawn", "helm_run", "make_spawn", "make_run"}
\* the targets whose single-target build has started and not yet finished
InFlight == {i \in Idx : tstate[i] \in InFlightStates}
Waiting == {i \in Idx : tstate[i] = "waiting"}
\* build_multiple_* has been entered
InBatch == pc \in {"gather", "returned", "raised", "done"} /\ (pc = "done" => batch_out # Unset)
Returned == batch_out.kind = "returned"
Details == batch_out.value.build_details
ErrorOf(d) == Get(d, "error", NoneVal)

\* C1 (as stated): for every max_concurrent = M and every list of length N,
\* in every state of a batch the number of targets in flight is at most
\* min(M, N).
C1_InFlightAtMostMin ==
    InBatch => Cardinality(InFlight) <= Min(max_concurrent, N)

\* C1 (amended): the number of targets in flight is at most min(M, N) for
\* every M >= 0, and is 0 for a negative M, where the semaphore's constructor
\* raises before any task exists.
C1_InFlightBounded ==
    Cardinality(InFlight) <= Min(Max(max_concurrent, 0), N)

\* C1 witness: every slot is taken and a target is queued behind them.
C1_Witness ==
    /\ pc = "gather" /\ max_concurrent >= 1
    /\ Cardinality(InFlight) = max_concurrent
    /\ Waiting # {}

\* C2: the returned build_details has the length of dt_list and, at every
\* index i, holds what the task of dt_list[i] produced, with dt = dt_list[i],
\* whatever the completion order and also when the builder's result had no dt.
C2_DetailsAligned ==
    Returned =>
        /\ Len(Details) = N
        /\ \A i \in Idx :
              /\ Details[i].dt = dt_list[i]
              /\ results[i].kind = "value" => Details[i] = results[i].value
              /\ results[i].kind = "exception" =>
                    /\ ~Details[i].success
                    /\ Contains(ErrorOf(Details[i]), results[i].exc)

\* C2 witness: a batch of two different names returned after the second
\* target completed first, one result being the builder's dt-less one.
C2_Witness ==
    /\ Returned /\ inverted /\ N >= 2 /\ dt_list[1] # dt_list[2]
    /\ \E i \in Idx : seen[i] = "missing"

\* once the batch has ended no target is queued or in flight, and a returned
\* result is built only from settled tasks
C3_StateAllSettled ==
    /\ batch_out # Unset => Waiting = {} /\ InFlight = {}
    /\ Returned /\ N > 0 =>
          \A i \in Idx : tstate[i] = "done" /\ results[i] # Pending
    /\ response # Unset => Waiting = {} /\ InFlight = {}

\* a step in which a target fails changes no sibling's task or result
C3_FailureLeavesSiblings ==
    \A i \in Idx :
        (tstate[i] # "done" /\ tstate'[i] = "done"
            /\ (results'[i].kind = "exception" \/ ~results'[i].value.success))
        => \A j \in Idx \ {i} :
              /\ tstate'[j] = tstate[j]
              /\ results'[j] = results[j]

\* C3: when the batch result exists (or the call has ended in any other way)
\* no target is queued or in flight, the returned result is built only from
\* settled tasks, and a step in which a target fails changes no sibling.
C3_WaitsForAll == []C3_StateAllSettled /\ [][C3_FailureLeavesSiblings]_vars

\* C3 witness: with a single slot, a target has failed by raising and its
\* sibling, which was queued meanwhile, has started after it.
C3_Witness ==
    /\ pc = "gather" /\ max_concurrent = 1
    /\ \E i \in Idx, j \in Idx :
          /\ i # j
          /\ results[i].kind = "exception"
          /\ tstate[j] \in InFlightStates

\* the call of the single-target builder for position i ended by raising:
\* the task raised, or its result is the dict of the wrapper's except clause
BuilderRaised(i) ==
    \/ results[i].kind = "exception"
    \/ /\ results[i].kind = "value"
       /\ DOMAIN results[i].value = {"success", "dt", "error"}

TaskPrefix == IF IsHelm THEN "Helm task exception: " ELSE "Task exception: "
BuildPrefix == IF IsHelm THEN "Helm build exception: " ELSE "Build exception: "

\* C4 (as stated): when a target's single-target build raises, the batch
\* still has one entry per target and the raising target's entry is a failure
\* carrying the task-level exception error.
C4_RaisingTargetIsTaskLevel ==
    Returned =>
        /\ Len(Details) = N
        /\ \A i \in Idx : BuilderRaised(i) =>
              /\ ~Details[i].success
              /\ Head(ErrorOf(Details[i])) = TaskPrefix

\* C4 (amended): when a target's single-target build raises, the batch still
\* has one entry per target; the raising target's entry is a failure carrying
\* the build-level exception error of the wrapper's own except clause, and
\* the task-level error only when the wrapper task itself raised (its handler
\* failed on str(e)); the two texts differ and every other entry is the
\* target's own result.
C4_RaisingTargetIsolated ==
    Returned =>
        /\ Len(Details) = N
        /\ TaskPrefix # BuildPrefix
        /\ \A i \in Idx :
              IF BuilderRaised(i)
              THEN /\ ~Details[i].success
                   /\ Details[i].dt = dt_list[i]
                   /\ \/ /\ results[i].kind = "value"
                         /\ Head(ErrorOf(Details[i])) = BuildPrefix
                      \/ /\ results[i].kind = "exception"
                         /\ ErrorOf(Details[i]) = <<TaskPrefix, StrError>>
              ELSE Details[i] = results[i].value

\* C4 witness: a returned batch in which one target's directory check raised
\* and was reported by the wrapper, and a sibling was built successfully.
C4_Witness ==
    /\ Returned
    /\ \E i \in Idx, j \in Idx :
          /\ seen[i] = "error" /\ results[i].kind = "value"
          /\ Details[j].success

\* C5: every result of build_multiple_* has total_dts = success_count +
\* failure_count = len(build_details) and success = (failure_count = 0).
C5_BatchCounts ==
    Returned =>
        LET r == batch_out.value
        IN  /\ r.total_dts = r.success_count + r.failure_count
            /\ r.total_dts = Len(r.build_details)
            /\ r.success = (r.failure_count = 0)
            /\ r.success_count = Len(r.successful_dts)
            /\ r.failure_count = Len(r.failed_dts)

\* C5 witness: a returned batch naming the same target twice, one build of
\* it successful and the other ended by a task that raised.
C5_Witness ==
    /\ Returned /\ N >= 2 /\ dt_list[1] = dt_list[2]
    /\ \E i \in Idx, j \in Idx :
          /\ results[i].kind = "exception"
          /\ results[j].kind = "value" /\ results[j].value.success

\* the BatchResult invariants of a result r
CountsAgree(r) ==
    /\ r.total_dts = r.success_count + r.failure_count
    /\ r.total_dts = Len(r.build_details)
    /\ r.success = (r.failure_count = 0)

\* C6 (as stated): every response of build_deployables and
\* build_helm_deployables, the whole-batch error responses included, has
\* total_dts = success_count + failure_count = len(build_details) and
\* success = (failure_count = 0).
C6_ResponseCounts == response # Unset => CountsAgree(response)

\* the names of dts at the positions whose detail has success = flag
RECURSIVE NamesWhere(_, _, _, _)
NamesWhere(dts, details, flag, k) ==
    IF k = 0 THEN <<>>
    ELSE NamesWhere(dts, details, flag, k - 1) \o
         (IF details[k].success = flag THEN <<dts[k]>> ELSE <<>>)

PartitionOf(r) ==
    /\ Len(r.build_details) = N
    /\ r.successful_dts = NamesWhere(dt_list, r.build_details, TRUE, N)
    /\ r.failed_dts = NamesWhere(dt_list, r.build_details, FALSE, N)
    /\ Len(r.successful_dts) + Len(r.failed_dts) = N

\* C7: in every batch result successful_dts is the subsequence of dt_list, in
\* input order, of the positions whose detail succeeded, failed_dts that of
\* the positions whose detail failed, and together they cover every position
\* once; the response built from the batch result keeps both lists.
C7_Partition ==
    Returned =>
        /\ PartitionOf(batch_out.value)
        /\ (IsServer /\ response # Unset) => PartitionOf(response)

\* C7 witness: a returned batch with a success and a failure in which the
\* second target completed before the first.
C7_Witness ==
    /\ Returned /\ inverted
    /\ batch_out.value.successful_dts # <<>>
    /\ batch_out.value.failed_dts # <<>>

IsEmptySuccess(r) ==
    /\ r.success
    /\ r.total_dts = 0 /\ r.success_count = 0 /\ r.failure_count = 0
    /\ r.successful_dts = <<>> /\ r.failed_dts = <<>> /\ r.build_details = <<>>

\* C8 (as stated): an empty target list gives success = true with total 0,
\* empty lists and zero counts, no semaphore, no task and no process, from
\* both batch builders and from both tools.
C8_EmptyListSucceeds ==
    dt_list = <<>> =>
        /\ sem = 0 /\ pc # "gather"
        /\ batch_out # Unset => Returned /\ IsEmptySuccess(batch_out.value)
        /\ response # Unset => IsEmptySuccess(response)

\* the tool reaches build_multiple_* : build_deployables needs its context,
\* build_helm_deployables a build root that resolves and exists, then its context
ToolReachesBatch ==
    IF entry = "build_deployables" THEN ctx # "None"
    ELSE ResolvedRoot # NoneVal /\ root_exists /\ ctx # "None"

\* C8 (amended): for an empty target list no semaphore, task or process is
\* ever created; both batch builders return the empty success at once;
\* build_deployables does so when it has a context, build_helm_deployables
\* when its build root resolves to an existing directory and it has a
\* context; otherwise the tool answers with the whole-batch error response
\* (success = false) without entering the batch builder.
C8_EmptyList ==
    dt_list = <<>> =>
        /\ sem = 0 /\ pc # "gather"
        /\ batch_out # Unset => batch_out = BatchReturned(EmptyBatchResult)
        /\ response # Unset =>
              IF ToolReachesBatch
              THEN IsEmptySuccess(response)
              ELSE ~response.success /\ batch_out = Unset

\* C8 witness: build_helm_deployables has answered an empty list with the
\* empty success it got from build_multiple_helm_deployables.
C8_Witness ==
    /\ dt_list = <<>> /\ entry = "build_helm_deployables"
    /\ Returned /\ response # Unset /\ response.success

DoesNotExist == " does not exist"

\* C9: a target whose directory does not exist gets a failed detail whose
\* error contains "does not exist", no process is ever created for it, and
\* in the returned batch every sibling has run its own build and has its
\* own entry.
C9_MissingTarget ==
    /\ \A i \in Idx : seen[i] = "missing" =>
          /\ tstate[i] = "done" /\ spawned[i] = <<>>
          /\ results[i].kind = "value"
          /\ ~results[i].value.success
          /\ Contains(ErrorOf(results[i].value), DoesNotExist)
    /\ Returned =>
          \A i \in Idx :
              /\ invoked[i] = 1 /\ seen[i] # "unchecked"
              /\ seen[i] = "missing" =>
                    /\ ~Details[i].success
                    /\ Contains(ErrorOf(Details[i]), DoesNotExist)
              /\ results[i].kind = "value" => Details[i] = results[i].value

\* C9 witness: a returned batch with a missing target and a sibling that was
\* built, by a process, successfully.
C9_Witness ==
    /\ Returned
    /\ \E i \in Idx, j \in Idx :
          /\ seen[i] = "missing"
          /\ spawned[j] # <<>> /\ Details[j].success

\* the builder has been called once for a position that has started or ended,
\* not yet for one that is queued, and a returned batch has built them all
C10_StateOnce ==
    /\ \A i \in Idx :
          /\ invoked[i] <= 1
          /\ tstate[i] \in {"new", "waiting"} => invoked[i] = 0
          /\ tstate[i] \in InFlightStates \cup {"done"} => invoked[i] = 1
          /\ results[i] # Pending <=> tstate[i] = "done"
    /\ Returned =>
          /\ Len(Details) = N
          /\ \A i \in Idx : invoked[i] = 1 /\ results[i] # Pending

\* a result, once produced, is never replaced; a task that ended stays ended
C10_ResultKept ==
    \A i \in Idx :
        /\ results[i] # Pending => results'[i] = results[i]
        /\ tstate[i] = "done" => tstate'[i] = "done"
        /\ invoked'[i] >= invoked[i]

\* C10: the single-target builder is called at most once for a position, a
\* position that is queued has not been built, one that has started or ended
\* has been built once, its result never changes once produced, and the
\* returned batch has built every position once.
C10_ExactlyOnce == []C10_StateOnce /\ [][C10_ResultKept]_vars

\* C10 witness: a returned batch in which one target's process failed and
\* another target's task raised, each built once.
C10_Witness ==
    /\ Returned
    /\ \E i \in Idx, j \in Idx :
          /\ results[i].kind = "value" /\ ~results[i].value.success
          /\ spawned[i] # <<>> /\ invoked[i] = 1
          /\ results[j].kind = "exception" /\ invoked[j] = 1

\* the event loop resumes every task that can run, and every external
\* process eventually exits: a step that stays possible is eventually taken
FairSpec == Spec /\ WF_vars(Next)

\* C11 (as stated): for every dt_list and every max_concurrent, 0 and
\* negative values included, a call of build_deployables or of
\* build_helm_deployables eventually returns a response to the caller.
C11_EventuallyResponds == IsServer ~> (response # Unset)

\* the three fixed templates of the summary message
BatchHead == IF IsHelm THEN "Concurrent batch Helm build " ELSE "Concurrent batch build "
AllSucceeded(n) == <<BatchHead, "completed! All ", ToString(n), " DTs built successfully">>
AllFailed(n) == <<BatchHead, "failed! All ", ToString(n), " DTs failed to build">>
Partially(s, f) ==
    <<BatchHead, "partially successful! ", ToString(s), " successful, ",
      ToString(f), " failed">>
TemplateFor(s, f) ==
    IF f = 0 THEN AllSucceeded(s) ELSE IF s = 0 THEN AllFailed(f) ELSE Partially(s, f)
NoListMessage == <<"No DT list provided for building">>

\* C12 (as stated): the message of every result of build_multiple_* is the
\* one of the three templates selected by (success_count, failure_count).
C12_MessageIsTemplate ==
    Returned =>
        batch_out.value.message =
            TemplateFor(batch_out.value.success_count, batch_out.value.failure_count)

\* C12 (amended): for a non-empty list the message is the one of the three
\* templates selected by (success_count, failure_count); for the empty list
\* it is the fixed text "No DT list provided for building", which is none of
\* the three templates.
C12_MessageByCounts ==
    Returned =>
        LET r == batch_out.value
        IN  /\ N > 0 => r.message = TemplateFor(r.success_count, r.failure_count)
            /\ N = 0 =>
                  /\ r.message = NoListMessage
                  /\ r.message # TemplateFor(r.success_count, r.failure_count)

\* C12 witness: a returned batch in which every target failed.
C12_Witness ==
    /\ Returned /\ N >= 2
    /\ batch_out.value.success_count = 0
    /\ batch_out.value.message = AllFailed(N)

\* an optional text field that is present and not empty
Populated(x) == x # NoneVal /\ x # <<>>

\* C13 (as stated): in every batch result a detail with success = false has a
\* populated error and a detail with success = true has a populated message,
\* whatever the external processes did.
C13_ErrorOrMessagePopulated ==
    Returned =>
        \A i \in Idx :
            IF Details[i].success
            THEN Populated(Get(Details[i], "message", NoneVal))
            ELSE Populated(ErrorOf(Details[i]))

\* the last exit recorded for position i
LastExit(i) == exits[i][Len(exits[i])]
\* the make command of position i has exited with a non-zero status
MakeFailed(i) ==
    /\ tstate[i] = "done" /\ exits[i] # <<>>
    /\ LastExit(i).cmd = "make" /\ LastExit(i).rc # 0

\* C14 (as stated): Kubernetes path: when make exits non-zero the result is a
\* failure whose error is the captured stderr, or a generic (non-empty)
\* message when the captured stderr is empty, with the captured stdout.
C14_NonZeroExitError ==
    ~IsHelm =>
        \A i \in Idx : MakeFailed(i) =>
            /\ results[i].kind = "value"
            /\ ~results[i].value.success
            /\ results[i].value.stdout = LastExit(i).stdout
            /\ IF LastExit(i).stderr # <<>>
               THEN results[i].value.error = LastExit(i).stderr
               ELSE Populated(results[i].value.error)

\* C15 (as stated): an exception raised at any step of a single-target
\* build, directory resolution included, is caught inside the single-target
\* builder and returned as a failure with a build-exception error; none
\* leaves the builder.
C15_BuilderCatchesAll ==
    \A i \in Idx : tstate[i] = "done" =>
        /\ ~BuilderRaised(i)
        /\ seen[i] = "error" =>
              /\ results[i].kind = "value"
              /\ ~results[i].value.success
              /\ Head(ErrorOf(results[i].value)) = BuildPrefix

StartsWith(s, tok) == s # <<>> /\ s[1] = tok

\* the make command of position i exited and the builder returned a result
\* of its own (no exception interrupted it)
MakeEvaluated(i) ==
    /\ tstate[i] = "done" /\ exits[i] # <<>> /\ LastExit(i).cmd = "make"
    /\ results[i].kind = "value"
    /\ ~StartsWith(ErrorOf(results[i].value), BuildPrefix)

\* C16: Helm path: the result's success flag is the build step's exit status
\* being zero, whatever the validation finds; a build that exited zero and
\* found no schema file has success = true, validation = false and
\* schema_files = [], and its target is listed in successful_dts.
C16_ValidationIsAdvisory ==
    IsHelm =>
        /\ \A i \in Idx : MakeEvaluated(i) =>
              LET r == results[i].value
              IN  /\ r.success = (LastExit(i).rc = 0)
                  /\ r.success =>
                        /\ r.validation = PyBool(r.schema_files # <<>>)
                        /\ r.schema_files \in {SchemaFiles(n) : n \in SchemaCounts}
        /\ Returned =>
              /\ batch_out.value.successful_dts = NamesWhere(dt_list, Details, TRUE, N)
              /\ \A i \in Idx : MakeEvaluated(i) =>
                    Details[i].success = (LastExit(i).rc = 0)

\* C16 witness: a returned helm batch with a target whose build exited zero
\* and found no schema file: success, validation false, listed as successful.
C16_Witness ==
    /\ IsHelm /\ Returned
    /\ \E i \in Idx :
          /\ MakeEvaluated(i) /\ LastExit(i).rc = 0
          /\ Details[i].success
          /\ Details[i].validation = PyBool(FALSE)
          /\ Details[i].schema_files = <<>>
          /\ Contains(batch_out.value.successful_dts, dt_list[i])

DepPrefix == "Helm dependency update failed: "
\* helm dependency update has exited non-zero for position i
DepFailed(i) ==
    exits[i] # <<>> /\ exits[i][1].cmd = "helm" /\ exits[i][1].rc # 0

HelmDirNotFound == "Helm directory not found for "

\* C18: Helm path: a target whose directory is missing, or whose
\* kubernetes/helm directory is missing, fails without any process (helm or
\* make) being created for it, and the error text of the first case differs
\* from the error text of the second, for the same and for different targets.
C18_HelmResolution ==
    IsHelm =>
        /\ \A i \in Idx : seen[i] \in {"missing", "nohelm"} =>
              /\ tstate[i] = "done"
              /\ spawned[i] = <<>> /\ exits[i] = <<>>
              /\ results[i].kind = "value"
              /\ ~results[i].value.success
              /\ results[i].value.dt = dt_list[i]
              /\ IF seen[i] = "missing"
                 THEN /\ Contains(results[i].value.error, DoesNotExist)
                      /\ ~StartsWith(results[i].value.error, HelmDirNotFound)
                 ELSE /\ StartsWith(results[i].value.error, HelmDirNotFound)
                      /\ ~Contains(results[i].value.error, DoesNotExist)
        /\ \A i \in Idx, j \in Idx :
              seen[i] = "missing" /\ seen[j] = "nohelm" =>
                  results[i].value.error # results[j].value.error

\* C18 witness: a returned helm batch with a target whose directory is
\* missing and a target whose helm directory is missing.
C18_Witness ==
    /\ IsHelm /\ Returned
    /\ \E i \in Idx, j \in Idx :
          /\ seen[i] = "missing" /\ seen[j] = "nohelm"
          /\ ~Details[i].success /\ ~Details[j].success

\* no target build has been started and no batch was run
NothingStarted ==
    /\ batch_out = Unset
    /\ \A i \in Idx : invoked[i] = 0 /\ spawned[i] = <<>> /\ tstate[i] = "new"

\* every successful detail of response r was built under root
BuiltUnder(r, root) ==
    \A k \in 1..Len(r.build_details) :
        r.build_details[k].success =>
            SubSeq(r.build_details[k].build_dir, 1, Len(root)) = root

\* C19: build_helm_deployables builds under the att_root argument when it is
\* given, else under the environment variable, and with neither it starts no
\* target build and answers with a failure listing every input target as
\* failed; build_deployables with no att_root argument does not fail for it
\* and builds under the configured root (under the argument when given).
C19_RootResolution ==
    /\ entry = "build_helm_deployables" =>
          /\ att_root = NoneVal /\ env_root = NoneVal =>
                /\ NothingStarted
                /\ response # Unset =>
                      /\ ~response.success
                      /\ response.failed_dts = dt_list
                      /\ response.failure_count = N
                      /\ response.successful_dts = <<>>
                      /\ response.error = HelmExceptMsg(ErrNoRoot)
          /\ att_root # NoneVal /\ response # Unset => BuiltUnder(response, att_root)
          /\ att_root = NoneVal /\ env_root # NoneVal /\ response # Unset =>
                BuiltUnder(response, env_root)
          /\ att_root # NoneVal /\ Len(notes) >= 3 =>
                notes[3] = Info(<<"Using ATT_ROOT: ">> \o att_root)
          /\ att_root = NoneVal /\ Len(notes) >= 3 =>
                notes[3] = Info(<<"Using ATT_ROOT: ">> \o env_root)
    /\ entry = "build_deployables" /\ response # Unset /\ ctx # "None" =>
          /\ max_concurrent >= 0 => response.error = NoneVal
          /\ BuiltUnder(response, IF att_root = NoneVal THEN <<CONFIG_ROOT>> ELSE att_root)

\* C19 witness: build_helm_deployables was given an att_root while the
\* environment names another root, and has built a target.
C19_Witness ==
    /\ entry = "build_helm_deployables" /\ response # Unset
    /\ att_root # NoneVal /\ env_root # NoneVal /\ att_root # env_root
    /\ response.successful_dts # <<>>

\* the individual outcome of the target at position i, from what happened
\* to it: its directories were there, its make exited with status zero and
\* nothing raised
TargetSucceeded(i) ==
    /\ seen[i] = "present"
    /\ exits[i] # <<>> /\ LastExit(i) = ProcExit("make", 0)

\* the names of dt_list, in input order, whose outcome is / is not a success
RECURSIVE ByOutcome(_, _)
ByOutcome(flag, k) ==
    IF k = 0 THEN <<>>
    ELSE ByOutcome(flag, k - 1) \o
         (IF TargetSucceeded(k) = flag THEN <<dt_list[k]>> ELSE <<>>)

\* C20: successful_dts, failed_dts, success_count and failure_count of a
\* returned batch are a function of dt_list and of the targets' individual
\* outcomes alone, so two runs that agree on these agree on the four fields,
\* whatever the interleaving and the completion order of each.
C20_AggregationDeterministic ==
    Returned /\ N > 0 =>
        /\ batch_out.value.successful_dts = ByOutcome(TRUE, N)
        /\ batch_out.value.failed_dts = ByOutcome(FALSE, N)
        /\ batch_out.value.success_count = Len(ByOutcome(TRUE, N))
        /\ batch_out.value.failure_count = Len(ByOutcome(FALSE, N))

\* C20 witness: a returned batch of two different targets with the same
\* outcome, the second of which completed first.
C20_Witness ==
    /\ Returned /\ inverted /\ N >= 2 /\ dt_list[1] # dt_list[2]
    /\ TargetSucceeded(1) /\ TargetSucceeded(2)

\* ------------------------------------------------------------------ C21
ElementsOf(l) == {l[k] : k \in 1..Len(l)}
\* every name a batch result mentions
NamesIn(r) ==
    ElementsOf(r.successful_dts) \cup ElementsOf(r.failed_dts)
        \cup {r.build_details[k].dt : k \in 1..Len(r.build_details)}

\* each batch has at most its own max_concurrent targets in flight
C21_OwnBound ==
    /\ Cardinality(InFlight) <= Max(max_concurrent, 0)
    /\ Cardinality(PeerInFlight) <= peer.max_concurrent

\* a queued target starts as soon as its own batch has a free slot, whatever
\* the other batch's semaphore and tasks are doing
C21_NoDelay ==
    /\ \A i \in Idx :
          (pc = "gather" /\ tstate[i] = "waiting" /\ sem > 0)
          => ENABLED (StartK8s(i) \/ StartHelm(i))
    /\ \A i \in PeerIdx :
          (peer.pc = "gather" /\ peer.tstate[i] = "waiting" /\ peer.sem > 0)
          => ENABLED PeerStart(i)

\* a batch result names only targets of its own list
C21_OwnTargets ==
    /\ Returned => NamesIn(batch_out.value) \subseteq ElementsOf(dt_list)
    /\ peer.out # Unset => NamesIn(peer.out.value) \subseteq ElementsOf(peer.dt_list)

\* a step of one batch leaves the semaphore, tasks and results of the other
C21_StepsApart ==
    /\ peer' # peer => UNCHANGED <<pc, tasks, batch_out>>
    /\ <<pc, tasks, batch_out>>' # <<pc, tasks, batch_out>> => peer' = peer

\* C21: two batches running concurrently are independent: each has its own
\* semaphore and result list, so a batch whose slots are all occupied never
\* delays the start of a target of the other batch, each batch's in-flight
\* count is bounded by its own max_concurrent only, each batch's result names
\* only its own targets, and a step of one batch changes nothing of the other.
C21_BatchesIndependent ==
    [](C21_OwnBound /\ C21_NoDelay /\ C21_OwnTargets) /\ [][C21_StepsApart]_vars

\* C21 witness: both batches are saturated at the same time, each with a
\* target queued, and together they have more targets in flight than either
\* limit allows.
C21_Witness ==
    /\ pc = "gather" /\ sem = 0 /\ Waiting # {}
    /\ peer.pc = "gather" /\ peer.sem = 0 /\ PeerWaiting # {}
    /\ Cardinality(InFlight) = max_concurrent
    /\ Cardinality(PeerInFlight) = peer.max_concurrent
    /\ Cardinality(InFlight) + Cardinality(PeerInFlight) > Max(max_concurrent, peer.max_concurrent)

\* ------------------------------------------------------------------ C22
\* the builder of position i went on to create a process (helm, or make after
\* helm exited with status zero) and the creation raised
SpawnFailed(i) ==
    /\ tstate[i] = "done" /\ seen[i] = "present"
    /\ \/ spawned[i] = <<>>
       \/ spawned[i] = <<"helm">> /\ exits[i] = <<ProcExit("helm", 0)>>
\* a process of position i was created and the await of its exit raised
AwaitFailed(i) ==
    /\ tstate[i] = "done" /\ seen[i] = "present"
    /\ Len(spawned[i]) = Len(exits[i]) + 1
\* every error a process that ran and exited non-zero can produce
NonZeroExitErrors ==
    {Strip(err) : err \in RawStderr} \cup {<<DepPrefix>> \o Strip(err) : err \in RawStderr}

\* C22: in both paths a target whose make or helm process could not be
\* created is a failure whose error is not an error that a process which ran
\* and exited non-zero produces, and is not the error of a target that
\* failed in another way (it identifies the spawn failure).
C22_SpawnFailureDistinct ==
    \A i \in Idx :
        (SpawnFailed(i) /\ results[i].kind = "value") =>
            /\ ~results[i].value.success
            /\ ErrorOf(results[i].value) \notin NonZeroExitErrors
            /\ \A j \in Idx :
                  (AwaitFailed(j) /\ results[j].kind = "value")
                  => ErrorOf(results[j].value) # ErrorOf(results[i].value)

\* ------------------------------------------------------------------ C23
\* the text part occurs in the text s, token by token
HasPart(s, part) ==
    \E p \in 1..(Len(s) - Len(part) + 1) : SubSeq(s, p, p + Len(part) - 1) = part
\* the line of the schema-file notification for the detail d
SchemaLine(d) ==
    <<"  - ", d.dt, ": ", ToString(Len(d.schema_files)), " schema files">>
\* the tool's call has completed with the result of its batch
HelmToolReturned ==
    entry = "build_helm_deployables" /\ pc = "done" /\ Returned /\ N > 0

\* C23: when build_helm_deployables has completed a batch, every successful
\* target with at least one discovered schema file has its line in a
\* "Schema files generated:" notification, also when other targets failed.
C23_SchemaSummaryPerTarget ==
    HelmToolReturned =>
        \A k \in 1..Len(response.build_details) :
            LET d == response.build_details[k]
            IN  (d.success /\ d.schema_files # NoneVal /\ d.schema_files # <<>>)
                => \E n \in 1..Len(notes) :
                      /\ notes[n].level = "info"
                      /\ notes[n].text[1] = "Schema files generated:"
                      /\ HasPart(notes[n].text, SchemaLine(d))

\* ------------------------------------------------------------------ C24
IsRunning(n) == n = RunningNote
IsSummary(n) == n.text[1] \in {"Batch build ", "Batch helm build "}
IsItemized(n) == n.text[1] \in {"Failed DT details:", "Failed helm DT details:"}
RunningAt == {k \in 1..Len(notes) : IsRunning(notes[k])}
SummaryAt == {k \in 1..Len(notes) : IsSummary(notes[k])}
ItemizedAt == {k \in 1..Len(notes) : IsItemized(notes[k])}
CountOf(s, tok) == Cardinality({k \in 1..Len(s) : s[k] = tok})
\* the summary notification the counts select
SummaryFor(s, f) ==
    LET head == IF IsHelm THEN "Batch helm build " ELSE "Batch build "
    IN  IF f = 0
        THEN Info(<<head, "completed successfully! All ", ToString(s),
                    " DTs built successfully">>)
        ELSE IF s = 0
        THEN Error(<<head, "failed! All ", ToString(f), " DTs failed to build">>)
        ELSE Info(<<head, "partially successful! ", ToString(s),
                    " successful, ", ToString(f), " failed">>)
\* the line of the itemized notification for the failed detail d
FailedLine(d) == <<"\n", "  - ", d.dt, ": ">> \o FmtNone(d.error)

\* the running notification precedes every start of a target build, and a
\* summary exists only once every target has settled
C24_Before ==
    IsServer =>
        /\ (pc \in {"batch", "gather", "returned", "raised"}
              \/ \E i \in Idx : invoked[i] > 0)
           => Cardinality(RunningAt) = 1
        /\ SummaryAt # {} => \A i \in Idx : tstate[i] = "done"
        /\ ItemizedAt # {} => SummaryAt # {}

\* what the notifications are once the call is over
C24_After ==
    /\ Cardinality(RunningAt) = 1 /\ Cardinality(SummaryAt) = 1
    /\ \A k \in SummaryAt :
          /\ notes[k] = SummaryFor(response.success_count, response.failure_count)
          /\ \A r \in RunningAt : r < k
          /\ \A j \in ItemizedAt : k < j
    /\ (ItemizedAt # {}) = (response.failure_count > 0)
    /\ Cardinality(ItemizedAt) <= 1
    /\ \A j \in ItemizedAt :
          /\ notes[j].level = "error"
          /\ CountOf(notes[j].text, "  - ") = response.failure_count
          /\ \A k \in 1..Len(response.build_details) :
                ~response.build_details[k].success
                => HasPart(notes[j].text, FailedLine(response.build_details[k]))

\* C24 (as stated): in every call of build_deployables / build_helm_deployables
\* that reaches the batch, the running notification precedes every start of a
\* target build, exactly one summary notification, selected by the counts,
\* follows the settling of every target, and an itemized failure notification
\* with one line per failed target exists if and only if failure_count > 0.
C24_NotificationsOfEveryBatch ==
    /\ C24_Before
    /\ (IsServer /\ pc = "done" /\ RunningAt # {}) => C24_After

\* C24 (amended): the same for every call whose batch returned a result; when
\* the batch raised (negative max_concurrent) no summary and no itemized
\* notification is sent, only the error notification of the except clause,
\* while the response counts every target as failed.
C24_NotificationOrder ==
    /\ C24_Before
    /\ (IsServer /\ pc = "done" /\ Returned) => C24_After
    /\ (IsServer /\ pc = "done" /\ RunningAt # {} /\ ~Returned) =>
          /\ SummaryAt = {} /\ ItemizedAt = {}
          /\ notes[Len(notes)].level = "error"
          /\ response.failure_count = N

\* C24 witness: a tool call has ended with a batch of two targets of which
\* the first failed and the second, which completed first, succeeded.
C24_Witness ==
    /\ IsServer /\ pc = "done" /\ Returned /\ N = 2 /\ inverted
    /\ ~response.build_details[1].success /\ response.build_details[2].success
    /\ ItemizedAt # {}

\* ------------------------------------------------------------------ C25
\* no pacing and no idle slot: while a slot is free every queued target can
\* start at once
C25_NoIdleSlot ==
    (pc = "gather" /\ sem > 0) =>
        \A i \in Waiting : ENABLED (StartK8s(i) \/ StartHelm(i))

\* C25: for max_concurrent >= 1, when every step that stays possible is
\* eventually taken (every started build finishes), every queued target
\* eventually acquires a slot and starts and the batch eventually returns;
\* and in no reachable state is a target queued while a slot is free and the
\* target cannot start.
C25_Progress ==
    /\ []C25_NoIdleSlot
    /\ \A i \in 1..MaxLen :
          (pc = "gather" /\ max_concurrent >= 1 /\ i \in Waiting)
             ~> (i \in Idx /\ invoked[i] > 0)
    /\ (pc = "gather" /\ max_concurrent >= 1) ~> Returned

\* C25 witness: with one slot and two targets, the second target, queued
\* while the first was building, has been started and the batch has returned.
C25_Witness ==
    /\ max_concurrent = 1 /\ N = 2 /\ Returned
    /\ \A i \in Idx : invoked[i] = 1 /\ spawned[i] # <<>>

\* ------------------------------------------------------------------ C26
\* the external process of position i has been created and never exits
Hung(i) == Hangs(i) /\ tstate[i] \in {"helm_run", "make_run"}
HungTargets == {i \in Idx : Hung(i)}
\* the other targets have all completed
OthersDone == \A j \in Idx : Hangs(j) \/ tstate[j] = "done"

\* while a process hangs its target holds a slot, the batch has not returned
\* and the tool has not responded; with a single slot no queued target can
\* start
C26_HungState ==
    HungTargets # {} =>
        /\ pc = "gather" /\ batch_out = Unset /\ response = Unset
        /\ HungTargets \subseteq InFlight
        /\ sem = max_concurrent - Cardinality(InFlight)
        /\ max_concurrent = 1 =>
              \A j \in Waiting : ~ENABLED (StartK8s(j) \/ StartHelm(j))

\* a hung target stays hung, and with a single slot nothing starts behind it
C26_HungStep ==
    /\ \A i \in Idx : Hung(i) => Hung(i)'
    /\ (HungTargets # {} /\ max_concurrent = 1) => invoked' = invoked

\* C26: a target whose external process never exits keeps its slot for ever
\* and the batch never returns; the other slots keep admitting and completing
\* the other targets (whenever fewer targets hang than there are slots); with
\* max_concurrent = 1 no target queued behind the hung one ever starts.
C26_HungSlot ==
    /\ []C26_HungState
    /\ [][C26_HungStep]_vars
    /\ (pc = "gather" /\ Cardinality({i \in Idx : Hangs(i)}) < max_concurrent)
          ~> OthersDone

\* C26 witness: two slots, one target hangs in its make process while the
\* other target has been built, and the batch is still waiting.
C26_Witness ==
    /\ max_concurrent = 2 /\ N = 2 /\ pc = "gather"
    /\ \E i \in Idx : Hung(i) /\ tstate[i] = "make_run"
    /\ \E j \in Idx : ~Hangs(j) /\ tstate[j] = "done" /\ spawned[j] # <<>>

\* ------------------------------------------------------------------ C27
\* the semaphore of the batch has been created
SemaphoreExists ==
    /\ N > 0 /\ max_concurrent >= 0
    /\ pc \in {"gather", "returned", "done"}
    /\ pc = "done" => Returned

\* free permits + targets holding a slot = max_concurrent; all permits are
\* free again once the batch has returned
C27_Conserved ==
    SemaphoreExists =>
        /\ sem >= 0
        /\ sem + Cardinality(InFlight) = max_concurrent
        /\ pc # "gather" => sem = max_concurrent

\* a target takes one permit when it starts, gives one back when it
\* finishes, however it finishes, and never again afterwards
C27_OncePerTarget ==
    /\ \A i \in Idx :
          /\ (tstate[i] = "waiting" /\ tstate'[i] \in InFlightStates) => sem' = sem - 1
          /\ (tstate[i] \in InFlightStates /\ tstate'[i] = "done") => sem' = sem + 1
          /\ (tstate[i] = "waiting" /\ tstate'[i] = "done") => sem' = sem
          /\ tstate[i] \in InFlightStates => tstate'[i] \in InFlightStates \cup {"done"}
          /\ tstate[i] = "done" => tstate'[i] = "done"
    /\ (pc = "gather" /\ sem' # sem) =>
          Cardinality({i \in Idx : (tstate[i] \in InFlightStates) # (tstate'[i] \in InFlightStates)}) = 1

\* C27: slot conservation: in every state of a batch the free permits plus
\* the targets holding a slot equal max_concurrent, a slot is held by one
\* target, and a target gives its slot back exactly once, when its build
\* finishes in success, in a failure result or in an exception, so a failing
\* or crashing target never reduces the capacity of the batch.
C27_SlotConservation == []C27_Conserved /\ [][C27_OncePerTarget]_vars

\* C27 witness: with one slot, a task that ended in an exception and a
\* target whose process failed have both given the slot back, the second one
\* having been started after the first, and the batch has returned.
C27_Witness ==
    /\ max_concurrent = 1 /\ N = 2 /\ Returned /\ sem = 1
    /\ \E i \in Idx : results[i].kind = "exception"
    /\ \E j \in Idx : results[j].kind = "value" /\ ~results[j].value.success
                      /\ exits[j] # <<>>

====
